---- MODULE Spec2Model ----
(***************************************************************************)
(* Model of src/src/music/youtube.ts: the MusicSubscription queue-draining *)
(* state machine (enqueue / processQueue / stop and the audio player       *)
(* handlers) and the voice-connection resilience handler.                   *)
(*                                                                         *)
(* Tracks are named by the order in which they were enqueued: track i is    *)
(* the i-th track handed to enqueue().  Track 0 stands for `undefined`,    *)
(* the value Array.prototype.shift() returns on an empty array.            *)
(***************************************************************************)
EXTENDS Integers, Sequences, FiniteSets

VARIABLES
  queue,          \* this.queue
  queueLock,      \* this.queueLock
  playerStatus,   \* this.audioPlayer.state.status
  playerResource, \* track of this.audioPlayer.state.resource (0: none)
  materializing,  \* tracks whose createAudioResource() promise is pending,
                  \* one per suspended processQueue execution
  notes,          \* notifications requested on the text channel, in order
  played,         \* tracks handed to audioPlayer.play(), in order
  pqCalls,        \* number of processQueue invocations so far
  overflow,       \* the synchronous recursion of processQueue exhausted the stack
  enqueued,       \* number of enqueue() calls so far
  stopCalls,      \* number of stop() calls so far
  runQ,           \* tracks offered to the current processQueue run: those it
                  \* dequeued and those queued behind them
  runErrs,        \* error notifications of the current processQueue run
  runAtt,         \* createAudioResource() calls of the current run
  runEnd,         \* "none" | "active" | "played" | "overflow"
  others,         \* queue, locks, player and counters (the fields above but
                  \* notes) of the Subscriptions constructed before the
                  \* last one, in order of construction
  locks,          \* this.readyLock of each Subscription, in order of construction
  listeners,      \* the Subscriptions whose handler is attached to the
                  \* current voice connection, in order of attachment
  calls,          \* calls of joinVCAndCreateSubscription suspended on a
                  \* promise that is not a timer
  bootCalls,      \* number of calls of joinVCAndCreateSubscription so far
  vcStatus,       \* this.voiceConnection.state.status
  rejoinAttempts, \* this.voiceConnection.rejoinAttempts
  waits,          \* suspended waits: entersState() and wait() calls in flight
  bootResult,     \* the point the bootstrap call that moved last reached: "none" |
                  \* "pending" | "fetching" | "announcing" | "joined" |
                  \* "rejected" | "timeout" | "noChannel" | "supplied"
  lastCall,       \* what the last step invoked on the voice connection
  registry,       \* subscriptions.get(guildId): a Subscription, named by its
                  \* rank of construction (0: no entry)
  subsCreated,    \* number of Subscriptions constructed for the guild
  active,         \* the Subscriptions whose voice connection is not Destroyed
  bootRet,        \* the Subscription the last joinVCAndCreateSubscription
                  \* returned (0: nothing, or not returned yet)
  lastEvent       \* the event the last step handled

qvars == <<queue, queueLock, playerStatus, playerResource, materializing, notes,
           played, pqCalls, overflow, enqueued, stopCalls, runQ, runErrs,
           runAtt, runEnd, others>>

vcvars == <<locks, listeners, calls, bootCalls, vcStatus, rejoinAttempts, waits, bootResult, lastCall,
            registry, subsCreated, active, bootRet, lastEvent>>

vars == <<qvars, vcvars>>

\* this.readyLock of the Subscription constructed last.
readyLock == IF locks = <<>> THEN FALSE ELSE locks[Len(locks)]

\* Bounds of the model.
MaxTracks == 3
MaxSubs == 2
MaxCalls == 3
MaxStops == 2
MaxSpin == 2
MaxWaits == 4
MaxFairWaits == 3

\* Constants of the program, in milliseconds where they are durations.
ConnectingWaitMs == 5000
ReadyWaitMs == 20000
BootWaitMs == 20000
BackoffStepMs == 5000
RejoinBudget == 5
KickedOrMoved == 4014
\* Granularity of the model's clock.
TickMs == 5000

Undefined == 0

ErrNote(t) == <<"err", t>>
PlayerErrNote(t) == <<"perr", t>>
NowNote(t) == <<"now", t>>
EmptyNote == <<"empty", Undefined>>

\* The fields of the Subscription that the queue operations read and write,
\* gathered in one record so that the synchronous call chains compose.
Sub == [queue |-> queue, queueLock |-> queueLock, status |-> playerStatus,
        resource |-> playerResource, mat |-> materializing, notes |-> notes,
        played |-> played, pqCalls |-> pqCalls, overflow |-> overflow,
        runQ |-> runQ, runErrs |-> runErrs, runAtt |-> runAtt, runEnd |-> runEnd,
        enqueued |-> enqueued, stopCalls |-> stopCalls, others |-> others,
        locks |-> locks, listeners |-> listeners, calls |-> calls,
        bootCalls |-> bootCalls, self |-> subsCreated, vcStatus |-> vcStatus,
        rejoinAttempts |-> rejoinAttempts, waits |-> waits,
        bootResult |-> bootResult, lastCall |-> "none",
        registry |-> registry, subsCreated |-> subsCreated,
        active |-> active, bootRet |-> bootRet]

SetSub(s) ==
  /\ queue' = s.queue
  /\ queueLock' = s.queueLock
  /\ playerStatus' = s.status
  /\ playerResource' = s.resource
  /\ materializing' = s.mat
  /\ notes' = s.notes
  /\ played' = s.played
  /\ pqCalls' = s.pqCalls
  /\ overflow' = s.overflow
  /\ runQ' = s.runQ
  /\ runErrs' = s.runErrs
  /\ runAtt' = s.runAtt
  /\ runEnd' = s.runEnd
  /\ enqueued' = s.enqueued
  /\ stopCalls' = s.stopCalls
  /\ others' = s.others
  /\ locks' = s.locks
  /\ listeners' = s.listeners
  /\ calls' = s.calls
  /\ bootCalls' = s.bootCalls
  /\ vcStatus' = s.vcStatus
  /\ rejoinAttempts' = s.rejoinAttempts
  /\ waits' = s.waits
  /\ bootResult' = s.bootResult
  /\ lastCall' = s.lastCall
  /\ registry' = s.registry
  /\ subsCreated' = s.subsCreated
  /\ active' = s.active
  /\ bootRet' = s.bootRet

\* The fields of one Subscription: its queue, its queue lock, its audio player
\* and what the model counts about them.  The notifications are not among
\* them: the Subscriptions of a guild write to the text channel.
QRec(s) ==
  [queue |-> s.queue, queueLock |-> s.queueLock, status |-> s.status,
   resource |-> s.resource, mat |-> s.mat, played |-> s.played,
   pqCalls |-> s.pqCalls, overflow |-> s.overflow, runQ |-> s.runQ,
   runErrs |-> s.runErrs, runAtt |-> s.runAtt, runEnd |-> s.runEnd,
   enqueued |-> s.enqueued, stopCalls |-> s.stopCalls]

WithQ(s, q) ==
  [s EXCEPT !.queue = q.queue, !.queueLock = q.queueLock, !.status = q.status,
            !.resource = q.resource, !.mat = q.mat, !.played = q.played,
            !.pqCalls = q.pqCalls, !.overflow = q.overflow, !.runQ = q.runQ,
            !.runErrs = q.runErrs, !.runAtt = q.runAtt, !.runEnd = q.runEnd,
            !.enqueued = q.enqueued, !.stopCalls = q.stopCalls]

\* `this` of a method or handler: the fields of Subscription k change places
\* with those of the Subscription constructed last, so that the operations
\* below run on Subscription k; applied again, it puts both back.
Swap(s, k) ==
  IF k = s.subsCreated THEN s
  ELSE [WithQ(s, s.others[k]) EXCEPT !.others[k] = QRec(s)]

\* onError(error): console.warn, then send "Erreur: <message>".
onError(s, n) ==
  [s EXCEPT !.notes = Append(@, n),
            !.runErrs = IF s.runEnd = "active" THEN Append(@, n) ELSE @]

\* processQueue() reached with an empty queue: shift() yields undefined, the
\* call undefined.createAudioResource() throws synchronously inside the try,
\* the catch reports it, unlocks and calls processQueue() again, which passes
\* the guard again.  Nothing awaits, so the recursion only ends when the stack
\* is exhausted; how many reports were made by then, and whether the frame in
\* which the RangeError surfaced had already cleared the lock, depends on the
\* engine.  k counts the reports (and the further invocations, the last of
\* which overflowed), l is the lock left behind.
Runaway(s) ==
  { [s EXCEPT !.notes = @ \o [i \in 1..k |-> ErrNote(Undefined)],
              !.runErrs = IF s.runEnd = "active"
                            THEN @ \o [i \in 1..k |-> ErrNote(Undefined)] ELSE @,
              !.pqCalls = @ + k,
              !.queueLock = l,
              !.overflow = TRUE,
              !.runEnd = IF s.runEnd = "active" THEN "overflow" ELSE @]
    : k \in 1..MaxSpin, l \in BOOLEAN }

\* processQueue() whose guard forgets the lock.
processQueue_NoLock(s, rec) ==
  LET c == [s EXCEPT !.pqCalls = @ + 1] IN
  IF c.status # "Idle"
    THEN {c}
    ELSE LET r == IF rec THEN c
                  ELSE [c EXCEPT !.runQ = c.queue, !.runErrs = <<>>,
                                 !.runAtt = 0, !.runEnd = "active"]
         IN IF r.queue = <<>>
              THEN Runaway([r EXCEPT !.queueLock = TRUE])
              ELSE {[r EXCEPT !.queueLock = TRUE,
                              !.queue = Tail(@),
                              !.mat = @ \cup {Head(r.queue)},
                              !.runAtt = @ + 1]}

\* processQueue() whose guard forgets the player.
processQueue_NoIdleCheck(s, rec) ==
  LET c == [s EXCEPT !.pqCalls = @ + 1] IN
  IF c.queueLock
    THEN {c}
    ELSE LET r == IF rec THEN c
                  ELSE [c EXCEPT !.runQ = c.queue, !.runErrs = <<>>,
                                 !.runAtt = 0, !.runEnd = "active"]
         IN IF r.queue = <<>>
              THEN Runaway([r EXCEPT !.queueLock = TRUE])
              ELSE {[r EXCEPT !.queueLock = TRUE,
                              !.queue = Tail(@),
                              !.mat = @ \cup {Head(r.queue)},
                              !.runAtt = @ + 1]}

\* processQueue() that takes the last item of the queue (pop for shift).
processQueue_Pop(s, rec) ==
  LET c == [s EXCEPT !.pqCalls = @ + 1] IN
  IF c.queueLock \/ c.status # "Idle"
    THEN {c}
    ELSE LET r == IF rec THEN c
                  ELSE [c EXCEPT !.runQ = c.queue, !.runErrs = <<>>,
                                 !.runAtt = 0, !.runEnd = "active"]
         IN IF r.queue = <<>>
              THEN Runaway([r EXCEPT !.queueLock = TRUE])
              ELSE {[r EXCEPT !.queueLock = TRUE,
                              !.queue = SubSeq(@, 1, Len(@) - 1),
                              !.mat = @ \cup {r.queue[Len(r.queue)]},
                              !.runAtt = @ + 1]}

\* processQueue(), up to its first suspension.  rec tells the recursive call of
\* the catch block from a call by enqueue() or by the Idle handler; it only
\* decides whether a new run is recorded.  The result is the set of states the
\* call can leave behind.
processQueue(s, rec) ==
  LET c == [s EXCEPT !.pqCalls = @ + 1] IN
  IF c.queueLock \/ c.status # "Idle"
    THEN {c}
    ELSE LET r == IF rec THEN c
                  ELSE [c EXCEPT !.runQ = c.queue, !.runErrs = <<>>,
                                 !.runAtt = 0, !.runEnd = "active"]
         IN IF r.queue = <<>>
              THEN Runaway([r EXCEPT !.queueLock = TRUE])
              ELSE {[r EXCEPT !.queueLock = TRUE,
                              !.queue = Tail(@),
                              !.mat = @ \cup {Head(r.queue)},
                              !.runAtt = @ + 1]}

\* The handler announcing an empty queue on every return to Idle.
playerStateChange_AlwaysEmpty(s, new, res) ==
  LET old == s.status
      p == [s EXCEPT !.status = new, !.resource = res]
  IN IF new = "Idle" /\ old # "Idle"
       THEN {[p EXCEPT !.notes = Append(@, EmptyNote)]}
       ELSE IF new = "Playing"
              THEN {[p EXCEPT !.notes = Append(@, NowNote(res))]}
              ELSE {p}

\* The audio player changes state: the library emits stateChange synchronously
\* and the handler of the constructor runs.
playerStateChange(s, new, res) ==
  LET old == s.status
      p == [s EXCEPT !.status = new, !.resource = res]
  IN IF new = "Idle" /\ old # "Idle"
       THEN IF p.queue = <<>>
              THEN {[p EXCEPT !.notes = Append(@, EmptyNote)]}
              ELSE processQueue(p, FALSE)
       ELSE IF new = "Playing"
              THEN {[p EXCEPT !.notes = Append(@, NowNote(res))]}
              ELSE {p}

\* audioPlayer.stop(true): nothing happens on an Idle player, otherwise the
\* player is forced to Idle.
playerStop(s) ==
  IF s.status = "Idle" THEN {s} ELSE playerStateChange(s, "Idle", Undefined)

\* stop().  The tracks it drops from the queue are no longer offered to a run
\* in progress.
stop(s) ==
  playerStop([s EXCEPT !.queueLock = TRUE, !.queue = <<>>,
                       !.stopCalls = @ + 1,
                       !.runQ = IF s.runEnd = "active"
                                  THEN SubSeq(@, 1, s.runAtt) ELSE @])

\* enqueue(track) with a fast path that plays the track at once on an idle,
\* unlocked player.
enqueue_PlayNow(s, t) ==
  IF ~s.queueLock /\ s.status = "Idle" /\ s.queue = <<>>
    THEN playerStateChange([s EXCEPT !.played = Append(@, t),
                                     !.enqueued = @ + 1], "Buffering", t)
    ELSE processQueue([s EXCEPT !.queue = Append(@, t),
                           !.enqueued = @ + 1,
                           !.runQ = IF s.runEnd = "active" THEN Append(@, t) ELSE @],
                      FALSE)

\* enqueue(track)
enqueue(s, t) ==
  processQueue([s EXCEPT !.queue = Append(@, t),
                         !.enqueued = @ + 1,
                         !.runQ = IF s.runEnd = "active" THEN Append(@, t) ELSE @],
               FALSE)

\* A suspended processQueue resumes with the resource of track t:
\* audioPlayer.play(resource), then the lock is released.
resumeOk(s, t) ==
  LET m == [s EXCEPT !.mat = @ \ {t}, !.played = Append(@, t),
                     !.runEnd = IF @ = "active" THEN "played" ELSE @]
  IN { [p EXCEPT !.queueLock = FALSE] : p \in playerStateChange(m, "Buffering", t) }

\* The catch block without its report.
resumeFail_Silent(s, t) ==
  LET m == [s EXCEPT !.mat = @ \ {t}]
  IN processQueue([m EXCEPT !.queueLock = FALSE], TRUE)

\* A suspended processQueue resumes with a rejection: onError, unlock, recurse.
resumeFail(s, t) ==
  LET m == onError([s EXCEPT !.mat = @ \ {t}], ErrNote(t))
  IN processQueue([m EXCEPT !.queueLock = FALSE], TRUE)

----------------------------------------------------------------------------
\* The voice connection and the stateChange handler of the constructor.

\* A suspended wait: an entersState() of the bootstrap ("boot"), of the 4014
\* branch ("w4014") or of the ready-wait ("ready"), or the wait() before a
\* rejoin ("backoff").  rem is the time left before its timer fires; att is the
\* rejoinAttempts the handler read when it started the wait; own is the
\* Subscription whose handler waits, or the one a bootstrap call constructed.
Wait(kind, ms, att, own) == [kind |-> kind, rem |-> ms, att |-> att, own |-> own]

\* A call of joinVCAndCreateSubscription suspended on a promise without a
\* timer: the followUp of line 83 ("noChannel") or of line 97 ("timeout"), the
\* fetch of the voice channel ("fetching") or the followUp of line 103
\* ("announcing").  sub is the Subscription the call constructed (0: none).
Call(stage, sub) == [stage |-> stage, sub |-> sub]

\* The status an entersState() wait resolves on.
Target(w) ==
  CASE w.kind = "w4014" -> "Connecting"
    [] w.kind = "ready" -> "Ready"
    [] w.kind = "boot" -> "Ready"
    [] OTHER -> "none"

RemoveAt(q, i) == SubSeq(q, 1, i - 1) \o SubSeq(q, i + 1, Len(q))

\* The Subscriptions constructed on the current voice connection.
Attached(s) == {s.listeners[i] : i \in 1..Len(s.listeners)}

\* Wait w is an entersState() for status st on the current connection.
Resumes(s, w, st) == Target(w) = st /\ w.own \in Attached(s)

RECURSIVE Without(_, _, _)
Without(s, q, st) ==
  IF q = <<>> THEN <<>>
  ELSE IF Resumes(s, Head(q), st) THEN Without(s, Tail(q), st)
       ELSE <<Head(q)>> \o Without(s, Tail(q), st)

\* The bootstrap calls among the waits q that resume on st, as calls that go
\* on to fetch the voice channel.
RECURSIVE Fetching(_, _, _)
Fetching(s, q, st) ==
  IF q = <<>> THEN <<>>
  ELSE IF Head(q).kind = "boot" /\ Resumes(s, Head(q), st)
         THEN <<Call("fetching", Head(q).own)>> \o Fetching(s, Tail(q), st)
         ELSE Fetching(s, Tail(q), st)

Kinds(q) == {q[i].kind : i \in 1..Len(q)}

\* (this.voiceConnection.rejoinAttempts + 1) * 5_000
backoffDelay(a) == (a + 1) * BackoffStepMs

\* The delay a wait's timer was set with.
Duration(w) ==
  CASE w.kind = "w4014" -> ConnectingWaitMs
    [] w.kind = "ready" -> ReadyWaitMs
    [] w.kind = "boot" -> BootWaitMs
    [] OTHER -> backoffDelay(w.att)

\* The timer of wait i has run out and is the next to fire: timers set with
\* the same delay fire in the order in which they were set.
Due(q, i) ==
  /\ q[i].rem = 0
  /\ \A j \in 1..(i - 1) : ~(q[j].rem = 0 /\ Duration(q[j]) = Duration(q[i]))

\* The entersState() calls that were waiting for status st resume: the 4014
\* branch has nothing left to do, each ready-wait runs its finally block on
\* its own Subscription, each bootstrap goes on to fetch the voice channel for
\* its message.
resumeOn(s, st) ==
  LET owners == {s.waits[i].own : i \in {j \in 1..Len(s.waits) :
                    s.waits[j].kind = "ready" /\ Resumes(s, s.waits[j], st)}}
      f == Fetching(s, s.waits, st)
  IN [s EXCEPT !.waits = Without(s, @, st),
               !.locks = [id \in DOMAIN @ |-> IF id \in owners THEN FALSE ELSE @[id]],
               !.calls = @ \o f,
               !.bootResult = IF f # <<>> THEN "fetching" ELSE @]

\* this.voiceConnection.state.status, for the Subscription whose code runs: a
\* Subscription constructed on an earlier connection holds a Destroyed one.
thisStatus(s) == IF s.self \in Attached(s) THEN s.vcStatus ELSE "Destroyed"

\* this.stop(), for the Subscription whose code runs.
thisStop(s) == {Swap(r, s.self) : r \in stop(Swap(s, s.self))}

RECURSIVE setVcState(_, _, _, _)
RECURSIVE emit(_, _, _, _, _)

\* voiceConnection.destroy(): throws on a connection that is already Destroyed.
vcDestroy(s) ==
  IF thisStatus(s) = "Destroyed"
    THEN {[s EXCEPT !.lastCall = "destroyThrew"]}
    ELSE setVcState([s EXCEPT !.lastCall = "destroy"], "Destroyed", "Manual", 0)

\* voiceConnection.rejoin(): refused on a Destroyed connection; otherwise the
\* join payload is sent again and a connection that was not Ready counts one
\* more attempt and goes back to Signalling.
vcRejoin(s) ==
  LET c == [s EXCEPT !.lastCall = "rejoin"] IN
  IF thisStatus(c) = "Destroyed" THEN {c}
  ELSE IF c.vcStatus = "Ready" THEN {c}
  ELSE setVcState([c EXCEPT !.rejoinAttempts = @ + 1], "Signalling", "none", 0)

\* The handler with an off-by-one retry budget.
vcHandler_Budget(s, new, reason, code) ==
  IF new = "Disconnected"
    THEN IF reason = "WebSocketClose" /\ code = KickedOrMoved
           THEN {[s EXCEPT !.waits = Append(@,
                    Wait("w4014", ConnectingWaitMs, s.rejoinAttempts, s.self))]}
         ELSE IF s.rejoinAttempts <= RejoinBudget
           THEN {[s EXCEPT !.waits = Append(@,
                    Wait("backoff", backoffDelay(s.rejoinAttempts), s.rejoinAttempts, s.self))]}
           ELSE vcDestroy(s)
  ELSE IF new = "Destroyed"
    THEN thisStop(s)
  ELSE IF ~s.locks[s.self] /\ new \in {"Connecting", "Signalling"}
    THEN {[s EXCEPT !.locks[s.self] = TRUE,
                    !.waits = Append(@, Wait("ready", ReadyWaitMs, s.rejoinAttempts, s.self))]}
  ELSE {s}

\* The handler ignoring the Destroyed status.
vcHandler_NoStop(s, new, reason, code) ==
  IF new = "Disconnected"
    THEN IF reason = "WebSocketClose" /\ code = KickedOrMoved
           THEN {[s EXCEPT !.waits = Append(@,
                    Wait("w4014", ConnectingWaitMs, s.rejoinAttempts, s.self))]}
         ELSE IF s.rejoinAttempts < RejoinBudget
           THEN {[s EXCEPT !.waits = Append(@,
                    Wait("backoff", backoffDelay(s.rejoinAttempts), s.rejoinAttempts, s.self))]}
           ELSE vcDestroy(s)
  ELSE IF new = "Destroyed"
    THEN {s}
  ELSE IF ~s.locks[s.self] /\ new \in {"Connecting", "Signalling"}
    THEN {[s EXCEPT !.locks[s.self] = TRUE,
                    !.waits = Append(@, Wait("ready", ReadyWaitMs, s.rejoinAttempts, s.self))]}
  ELSE {s}

\* The stateChange handler of the voice connection, up to its first await,
\* run for the Subscription s.self.
vcHandler(s, new, reason, code) ==
  IF new = "Disconnected"
    THEN IF reason = "WebSocketClose" /\ code = KickedOrMoved
           THEN {[s EXCEPT !.waits = Append(@,
                    Wait("w4014", ConnectingWaitMs, s.rejoinAttempts, s.self))]}
         ELSE IF s.rejoinAttempts < RejoinBudget
           THEN {[s EXCEPT !.waits = Append(@,
                    Wait("backoff", backoffDelay(s.rejoinAttempts), s.rejoinAttempts, s.self))]}
           ELSE vcDestroy(s)
  ELSE IF new = "Destroyed"
    THEN thisStop(s)
  ELSE IF ~s.locks[s.self] /\ new \in {"Connecting", "Signalling"}
    THEN {[s EXCEPT !.locks[s.self] = TRUE,
                    !.waits = Append(@, Wait("ready", ReadyWaitMs, s.rejoinAttempts, s.self))]}
  ELSE {s}

\* stateChange is emitted to the listeners ids in the order in which they were
\* attached; each handler runs to its first await before the next one starts.
emit(s, ids, new, reason, code) ==
  IF ids = <<>> THEN {s}
  ELSE UNION { emit(h, Tail(ids), new, reason, code) :
                 h \in vcHandler([s EXCEPT !.self = Head(ids)], new, reason, code) }

\* The state setter of the library's VoiceConnection: a connection that becomes
\* Ready forgets its rejoin attempts; stateChange is emitted (the handlers of
\* the Subscriptions constructed on the connection run), then, on a change of
\* status, the event named after the new status, on which the entersState()
\* calls waiting for it resume.
setVcState(s, new, reason, code) ==
  LET old == s.vcStatus
      c == [s EXCEPT !.vcStatus = new,
                     !.rejoinAttempts = IF new = "Ready" THEN 0 ELSE @,
                     !.active = IF new = "Destroyed" THEN {} ELSE @]
  IN { [(IF old # new THEN resumeOn(h, new) ELSE h) EXCEPT !.self = s.self] :
         h \in emit(c, c.listeners, new, reason, code) }

\* The 4014 wait timed out and the catch block does nothing.
timeout4014_Keep(s, i) ==
  {[s EXCEPT !.waits = RemoveAt(@, i)]}

\* The 4014 wait timed out: the catch block destroys the connection.
timeout4014(s, i) ==
  { [d EXCEPT !.self = s.self] :
      d \in vcDestroy([s EXCEPT !.waits = RemoveAt(@, i), !.self = s.waits[i].own]) }

\* The backoff elapsed: rejoin.
backoffElapsed(s, i) ==
  { [d EXCEPT !.self = s.self] :
      d \in vcRejoin([s EXCEPT !.waits = RemoveAt(@, i), !.self = s.waits[i].own]) }

\* The ready-wait timing out without destroying the connection.
readyTimeout_NoDestroy(s, i) ==
  {[s EXCEPT !.waits = RemoveAt(@, i), !.locks[s.waits[i].own] = FALSE]}

\* The ready-wait timing out without its finally block.
readyTimeout_NoFinally(s, i) ==
  LET c == [s EXCEPT !.waits = RemoveAt(@, i), !.self = s.waits[i].own] IN
  { [d EXCEPT !.self = s.self] :
      d \in IF thisStatus(c) # "Destroyed" THEN vcDestroy(c) ELSE {c} }

\* The ready-wait of a Subscription timed out: destroy unless already
\* Destroyed, then the finally block clears that Subscription's lock.
readyTimeout(s, i) ==
  LET c == [s EXCEPT !.waits = RemoveAt(@, i), !.self = s.waits[i].own] IN
  { [d EXCEPT !.locks[s.waits[i].own] = FALSE, !.self = s.self] :
      d \in IF thisStatus(c) # "Destroyed" THEN vcDestroy(c) ELSE {c} }

\* The bootstrap undoing its registration when the wait times out.
bootTimeout_Unregister(s, i) ==
  {[s EXCEPT !.waits = RemoveAt(@, i),
             !.calls = Append(@, Call("timeout", s.waits[i].own)),
             !.bootResult = "timeout", !.bootRet = 0, !.registry = 0]}

\* The bootstrap's wait for Ready timed out: the catch sends the failure
\* message and awaits its delivery.
bootTimeout(s, i) ==
  {[s EXCEPT !.waits = RemoveAt(@, i),
             !.calls = Append(@, Call("timeout", s.waits[i].own)),
             !.bootResult = "timeout", !.bootRet = 0]}

\* joinVoiceChannel() of the library: a guild's connection that is not
\* Destroyed is reused (rejoined when Disconnected); otherwise a new connection
\* starts in Signalling with no listener yet.
joinVoiceChannel(s) ==
  IF s.vcStatus \in {"None", "Destroyed"}
    THEN {[s EXCEPT !.vcStatus = "Signalling", !.rejoinAttempts = 0,
                    !.listeners = <<>>]}
  ELSE IF s.vcStatus = "Disconnected"
    THEN {[r EXCEPT !.lastCall = "none"] : r \in vcRejoin(s)}
  ELSE {s}

\* new MusicSubscription(connection): its own player, queue and locks, and its
\* handler attached to the connection; the constructor ends with
\* voiceConnection.subscribe(audioPlayer), on which the library stores the
\* subscription in the connection's state and so emits stateChange with the
\* status unchanged: on a connection in Signalling or Connecting the new
\* handler takes its ready-wait lock and starts its wait.
newSubscription(s) ==
  LET id == s.subsCreated + 1
      n == [s EXCEPT !.others = IF s.subsCreated = 0 THEN @
                                ELSE Append(@, QRec(s)),
            !.queue = <<>>, !.queueLock = FALSE, !.status = "Idle",
            !.resource = Undefined, !.mat = {}, !.played = <<>>,
            !.pqCalls = 0, !.overflow = FALSE, !.runQ = <<>>,
            !.runErrs = <<>>, !.runAtt = 0, !.runEnd = "none",
            !.enqueued = 0, !.stopCalls = 0, !.locks = Append(@, FALSE),
            !.listeners = Append(@, id), !.self = id,
            !.subsCreated = id, !.active = @ \cup {id}]
  IN IF n.vcStatus = "Destroyed" THEN {n}
     ELSE setVcState(n, n.vcStatus, "none", 0)

\* entersState(connection, Ready, 20e3) of the bootstrap: on a connection that
\* is Ready already it resolves at once and the bootstrap goes on to fetch the
\* voice channel.
bootAwaitReady(s) ==
  IF s.vcStatus = "Ready"
    THEN [s EXCEPT !.bootResult = "fetching", !.bootRet = 0,
                   !.calls = Append(@, Call("fetching", s.subsCreated))]
    ELSE [s EXCEPT !.bootResult = "pending", !.bootRet = 0,
                   !.waits = Append(@, Wait("boot", BootWaitMs, 0, s.subsCreated))]

\* The bootstrap registering a Subscription before it looks at the caller's
\* voice channel.
joinVCAndCreateSubscription_Eager(s, supplied, inVoice) ==
  IF supplied # Undefined
    THEN {[s EXCEPT !.bootResult = "supplied", !.bootRet = supplied]}
  ELSE IF inVoice
    THEN { bootAwaitReady([n EXCEPT !.registry = s.subsCreated + 1]) :
             n \in UNION {newSubscription(c) : c \in joinVoiceChannel(s)} }
  ELSE {[s EXCEPT !.bootResult = "noChannel", !.bootRet = 0,
                  !.calls = Append(@, Call("noChannel", Undefined)),
                  !.subsCreated = @ + 1, !.locks = Append(@, FALSE),
                  !.registry = s.subsCreated + 1]}

\* joinVCAndCreateSubscription(subscription, interaction), up to its first
\* await or its return.  supplied is the Subscription passed in (Undefined:
\* none), inVoice tells whether the member is in a voice channel.
joinVCAndCreateSubscription(s, supplied, inVoice) ==
  IF supplied # Undefined
    THEN {[s EXCEPT !.bootResult = "supplied", !.bootRet = supplied]}
  ELSE IF inVoice
    THEN { bootAwaitReady([n EXCEPT !.registry = s.subsCreated + 1]) :
             n \in UNION {newSubscription(c) : c \in joinVoiceChannel(s)} }
  ELSE {[s EXCEPT !.bootResult = "noChannel", !.bootRet = 0,
                  !.calls = Append(@, Call("noChannel", Undefined))]}

\* The fetch of the voice channel of call k resolved: the bootstrap sends the
\* message that it joined and awaits its delivery.
bootFetched(s, k) ==
  {[s EXCEPT !.calls[k].stage = "announcing", !.bootResult = "announcing"]}

\* The join message of call k was delivered: the bootstrap returns the
\* Subscription.
bootAnnounced(s, k) ==
  {[s EXCEPT !.calls = RemoveAt(@, k), !.bootResult = "joined",
             !.bootRet = s.calls[k].sub]}

\* The message of call k that reports a failure was delivered: the bootstrap
\* returns nothing.
bootSaid(s, k) ==
  {[s EXCEPT !.calls = RemoveAt(@, k), !.bootResult = s.calls[k].stage,
             !.bootRet = 0]}

\* The promise call k awaits rejects: the bootstrap rejects and returns
\* nothing.
bootRejected(s, k) ==
  {[s EXCEPT !.calls = RemoveAt(@, k), !.bootResult = "rejected", !.bootRet = 0]}

Dec(n) == IF n > TickMs THEN n - TickMs ELSE 0

----------------------------------------------------------------------------
\* The state once joinVCAndCreateSubscription has constructed the Subscription
\* on a fresh voice connection and started to wait for Ready: the constructor's
\* subscribe() has made the handler start its ready-wait on the Signalling
\* connection.
Init ==
  /\ queue = <<>>
  /\ queueLock = FALSE
  /\ playerStatus = "Idle"
  /\ playerResource = Undefined
  /\ materializing = {}
  /\ notes = <<>>
  /\ played = <<>>
  /\ pqCalls = 0
  /\ overflow = FALSE
  /\ enqueued = 0
  /\ stopCalls = 0
  /\ runQ = <<>>
  /\ runErrs = <<>>
  /\ runAtt = 0
  /\ runEnd = "none"
  /\ others = <<>>
  /\ locks = <<TRUE>>
  /\ listeners = <<1>>
  /\ vcStatus = "Signalling"
  /\ rejoinAttempts = 0
  /\ waits = <<Wait("ready", ReadyWaitMs, 0, 1), Wait("boot", BootWaitMs, 0, 1)>>
  /\ calls = <<>>
  /\ bootCalls = 1
  /\ bootResult = "pending"
  /\ lastCall = "none"
  /\ registry = 1
  /\ subsCreated = 1
  /\ active = {1}
  /\ bootRet = 0
  /\ lastEvent = "init"

\* The state before any Subscription exists for the guild.
InitBoot ==
  /\ queue = <<>>
  /\ queueLock = FALSE
  /\ playerStatus = "Idle"
  /\ playerResource = Undefined
  /\ materializing = {}
  /\ notes = <<>>
  /\ played = <<>>
  /\ pqCalls = 0
  /\ overflow = FALSE
  /\ enqueued = 0
  /\ stopCalls = 0
  /\ runQ = <<>>
  /\ runErrs = <<>>
  /\ runAtt = 0
  /\ runEnd = "none"
  /\ others = <<>>
  /\ locks = <<>>
  /\ listeners = <<>>
  /\ vcStatus = "None"
  /\ rejoinAttempts = 0
  /\ waits = <<>>
  /\ calls = <<>>
  /\ bootCalls = 0
  /\ bootResult = "none"
  /\ lastCall = "none"
  /\ registry = 0
  /\ subsCreated = 0
  /\ active = {}
  /\ bootRet = 0
  /\ lastEvent = "init"

\* A Subscription in the middle of its work: the bootstrap returned it on a
\* Ready connection, two tracks were enqueued, the first is playing and the
\* second is queued.
InitPlaying ==
  /\ queue = <<2>>
  /\ queueLock = FALSE
  /\ playerStatus = "Playing"
  /\ playerResource = 1
  /\ materializing = {}
  /\ notes = <<NowNote(1)>>
  /\ played = <<1>>
  /\ pqCalls = 2
  /\ overflow = FALSE
  /\ enqueued = 2
  /\ stopCalls = 0
  /\ runQ = <<1, 2>>
  /\ runErrs = <<>>
  /\ runAtt = 1
  /\ runEnd = "played"
  /\ others = <<>>
  /\ locks = <<FALSE>>
  /\ listeners = <<1>>
  /\ vcStatus = "Ready"
  /\ rejoinAttempts = 0
  /\ waits = <<>>
  /\ calls = <<>>
  /\ bootCalls = 1
  /\ bootResult = "joined"
  /\ lastCall = "none"
  /\ registry = 1
  /\ subsCreated = 1
  /\ active = {1}
  /\ bootRet = 1
  /\ lastEvent = "init"

\* A command calls the bootstrap without a Subscription while the member is in
\* no voice channel.
BootNoChannel ==
  /\ bootCalls < MaxCalls
  /\ \E r \in joinVCAndCreateSubscription(Sub, Undefined, FALSE) :
       SetSub([r EXCEPT !.bootCalls = @ + 1])
  /\ lastEvent' = "bootNoChannel"

\* A command calls the bootstrap without a Subscription while the member is in
\* a voice channel.
BootCreate ==
  /\ bootCalls < MaxCalls
  /\ subsCreated < MaxSubs
  /\ \E r \in joinVCAndCreateSubscription(Sub, Undefined, TRUE) :
       Len(r.waits) <= MaxWaits /\ SetSub([r EXCEPT !.bootCalls = @ + 1])
  /\ lastEvent' = "bootCreate"

\* A command calls the bootstrap with a Subscription it holds.
BootSupplied ==
  /\ bootCalls < MaxCalls
  /\ \E id \in 1..subsCreated, v \in BOOLEAN :
       \E r \in joinVCAndCreateSubscription(Sub, id, v) :
         SetSub([r EXCEPT !.bootCalls = @ + 1])
  /\ lastEvent' = "bootSupplied"

\* enqueue() is called on Subscription k with a new track.
Enqueue ==
  /\ \E k \in 1..subsCreated :
       LET s == Swap(Sub, k) IN
       /\ s.enqueued < MaxTracks
       /\ \E r \in enqueue(s, s.enqueued + 1) : SetSub(Swap(r, k))
  /\ lastEvent' = "enqueue"

\* stop() is called on Subscription k.
Stop ==
  /\ \E k \in 1..subsCreated :
       LET s == Swap(Sub, k) IN
       /\ s.stopCalls < MaxStops
       /\ \E r \in stop(s) : SetSub(Swap(r, k))
  /\ lastEvent' = "stop"

MaterializeOk ==
  /\ \E k \in 1..subsCreated :
       LET s == Swap(Sub, k) IN
       \E t \in s.mat : \E r \in resumeOk(s, t) : SetSub(Swap(r, k))
  /\ lastEvent' = "materialized"

MaterializeFail ==
  /\ \E k \in 1..subsCreated :
       LET s == Swap(Sub, k) IN
       \E t \in s.mat : \E r \in resumeFail(s, t) : SetSub(Swap(r, k))
  /\ lastEvent' = "materializeFailed"

\* The player of Subscription k starts to play the resource it was buffering.
PlayerPlaying ==
  /\ \E k \in 1..subsCreated :
       LET s == Swap(Sub, k) IN
       /\ s.status = "Buffering"
       /\ \E r \in playerStateChange(s, "Playing", s.resource) : SetSub(Swap(r, k))
  /\ lastEvent' = "playerPlaying"

\* The resource ends: the player of Subscription k returns to Idle.
PlayerIdle ==
  /\ \E k \in 1..subsCreated :
       LET s == Swap(Sub, k) IN
       /\ s.status # "Idle"
       /\ \E r \in playerStateChange(s, "Idle", Undefined) : SetSub(Swap(r, k))
  /\ lastEvent' = "playerIdle"

\* The player of Subscription k reports an error on its resource, then
\* returns to Idle.
PlayerError ==
  /\ \E k \in 1..subsCreated :
       LET s == Swap(Sub, k) IN
       /\ s.status # "Idle"
       /\ \E r \in playerStateChange(onError(s, PlayerErrNote(s.resource)),
                                     "Idle", Undefined) : SetSub(Swap(r, k))
  /\ lastEvent' = "playerError"

\* The transport configures its networking.
VcConnecting ==
  /\ vcStatus \in {"Signalling", "Disconnected", "Ready"}
  /\ \E r \in setVcState(Sub, "Connecting", "none", 0) :
       Len(r.waits) <= MaxWaits /\ SetSub(r)
  /\ lastEvent' = "connecting"

\* The transport is ready to carry audio.
VcReady ==
  /\ vcStatus = "Connecting"
  /\ \E r \in setVcState(Sub, "Ready", "none", 0) : SetSub(r)
  /\ lastEvent' = "ready"

\* The transport reports a disconnect, with its reason and close code.
VcDisconnected ==
  /\ vcStatus # "Destroyed"
  /\ \E d \in {<<"WebSocketClose", KickedOrMoved>>, <<"WebSocketClose", 4006>>,
               <<"EndpointRemoved", 0>>} :
       /\ \E r \in setVcState(Sub, "Disconnected", d[1], d[2]) :
            Len(r.waits) <= MaxWaits /\ SetSub(r)
       /\ lastEvent' = IF d[1] = "WebSocketClose" /\ d[2] = KickedOrMoved
                         THEN "disconnected4014" ELSE "disconnectedOther"

\* The connection is destroyed from outside the Subscription.
VcDestroyed ==
  /\ vcStatus # "Destroyed"
  /\ \E r \in setVcState(Sub, "Destroyed", "none", 0) : SetSub(r)
  /\ lastEvent' = "destroyed"

Timeout4014 ==
  /\ \E i \in 1..Len(waits) :
       /\ waits[i].kind = "w4014" /\ Due(waits, i)
       /\ \E r \in timeout4014(Sub, i) : SetSub(r)
  /\ lastEvent' = "timeout4014"

BackoffElapsed ==
  /\ \E i \in 1..Len(waits) :
       /\ waits[i].kind = "backoff" /\ Due(waits, i)
       /\ \E r \in backoffElapsed(Sub, i) : SetSub(r)
  /\ lastEvent' = "backoffElapsed"

ReadyTimeout ==
  /\ \E i \in 1..Len(waits) :
       /\ waits[i].kind = "ready" /\ Due(waits, i)
       /\ \E r \in readyTimeout(Sub, i) : SetSub(r)
  /\ lastEvent' = "readyTimeout"

BootTimeout ==
  /\ \E i \in 1..Len(waits) :
       /\ waits[i].kind = "boot" /\ Due(waits, i)
       /\ \E r \in bootTimeout(Sub, i) : SetSub(r)
  /\ lastEvent' = "bootTimeout"

BootFetched ==
  /\ \E k \in 1..Len(calls) :
       /\ calls[k].stage = "fetching"
       /\ \E r \in bootFetched(Sub, k) : SetSub(r)
  /\ lastEvent' = "bootFetched"

BootAnnounced ==
  /\ \E k \in 1..Len(calls) :
       /\ calls[k].stage = "announcing"
       /\ \E r \in bootAnnounced(Sub, k) : SetSub(r)
  /\ lastEvent' = "bootAnnounced"

BootSaid ==
  /\ \E k \in 1..Len(calls) :
       /\ calls[k].stage \in {"noChannel", "timeout"}
       /\ \E r \in bootSaid(Sub, k) : SetSub(r)
  /\ lastEvent' = "bootSaid"

BootRejected ==
  /\ \E k \in 1..Len(calls) : \E r \in bootRejected(Sub, k) : SetSub(r)
  /\ lastEvent' = "bootRejected"

\* Time passes, no further than the next timer that is due.
Tick ==
  /\ waits # <<>>
  /\ \A i \in 1..Len(waits) : waits[i].rem > 0
  /\ SetSub([Sub EXCEPT !.waits = [i \in 1..Len(waits) |->
                                     [waits[i] EXCEPT !.rem = Dec(@)]]])
  /\ lastEvent' = "tick"

NextQ ==
  \/ Enqueue
  \/ Stop
  \/ MaterializeOk
  \/ MaterializeFail
  \/ PlayerPlaying
  \/ PlayerIdle
  \/ PlayerError

NextVC ==
  \/ VcConnecting
  \/ VcReady
  \/ VcDisconnected
  \/ VcDestroyed
  \/ Timeout4014
  \/ BackoffElapsed
  \/ ReadyTimeout
  \/ BootTimeout
  \/ BootFetched
  \/ BootAnnounced
  \/ BootSaid
  \/ BootRejected
  \/ Tick

\* The queue operations alone.
SpecQ == Init /\ [][NextQ]_vars

\* The queue operations when stop() is never called.
NextQNoStop ==
  \/ Enqueue
  \/ MaterializeOk
  \/ MaterializeFail
  \/ PlayerPlaying
  \/ PlayerIdle
  \/ PlayerError

\* Every createAudioResource() promise settles and every resource ends.
FairSpecQ ==
  /\ Init /\ [][NextQNoStop]_vars
  /\ WF_vars(MaterializeOk \/ MaterializeFail)
  /\ WF_vars(PlayerIdle)

\* The bootstrap and the registry, with the events of a connection that is
\* never reported Disconnected.
NextBoot ==
  \/ BootNoChannel
  \/ BootCreate
  \/ BootSupplied
  \/ VcConnecting
  \/ VcReady
  \/ VcDestroyed
  \/ ReadyTimeout
  \/ BootTimeout
  \/ BootFetched
  \/ BootAnnounced
  \/ BootSaid
  \/ BootRejected
  \/ Tick

SpecBoot == InitBoot /\ [][NextBoot]_vars

\* The events of the voice connection once the bootstrap has returned, while
\* the player works through the tracks already enqueued.
PlayingEvent ==
  \/ VcConnecting
  \/ VcReady
  \/ VcDisconnected
  \/ VcDestroyed
  \/ Timeout4014
  \/ BackoffElapsed
  \/ ReadyTimeout
  \/ BootTimeout
  \/ Tick
  \/ BootCreate
  \/ PlayerIdle

\* The same with a bounded number of waits suspended at a time.
NextPlaying == PlayingEvent /\ Len(waits') <= MaxWaits

\* The voice connection of a Subscription that is playing.
SpecPlaying == InitPlaying /\ [][NextPlaying]_vars

\* The voice connection alone.
SpecVC == Init /\ [][NextVC]_vars

\* The voice connection with fewer waits suspended at a time.
NextFairVC == NextVC /\ Len(waits') <= MaxFairWaits

\* Timers fire and time passes.
FairSpecVC ==
  /\ Init /\ [][NextFairVC]_vars
  /\ WF_vars(Tick)
  /\ WF_vars(Timeout4014)
  /\ WF_vars(BackoffElapsed)
  /\ WF_vars(ReadyTimeout)
  /\ WF_vars(BootTimeout)

----------------------------------------------------------------------------
\* Helpers of the properties.
RECURSIVE Increasing(_)
Increasing(q) ==
  IF Len(q) < 2 THEN TRUE ELSE q[1] < q[2] /\ Increasing(Tail(q))

\* A processQueue run is over and handed no track to the player.
RunDrained == runEnd \in {"active", "overflow"} /\ materializing = {}

\* C1 (as claimed): once stop() has been called the queue lock stays set and
\* the player stays stopped, whatever processQueue execution resumes or starts.
C1_StopIsTerminal ==
  stopCalls > 0 => (queueLock /\ playerStatus = "Idle")

\* C2: at most one processQueue execution is suspended between taking and
\* releasing the lock, and it holds the lock; a step of enqueue() makes exactly
\* one processQueue invocation, which leaves the queue as enqueue() appended
\* it when the lock is held.
C2_SingleExecution ==
  /\ [](Cardinality(materializing) <= 1 /\ (materializing # {} => queueLock))
  /\ [][enqueued' # enqueued =>
          /\ pqCalls' = pqCalls + 1
          /\ (queueLock => /\ queue' = Append(queue, enqueued')
                           /\ materializing' = materializing
                           /\ queueLock')]_vars

C2_Witness ==
  /\ materializing = {1}
  /\ enqueued = 3
  /\ queue = <<2, 3>>
  /\ pqCalls = 3

\* C3 (as claimed): a run over a queue of n tracks that all fail to
\* materialize ends after n attempts and n error notifications, with the
\* queue empty and the lock released.
C3_DrainsExactly ==
  (RunDrained /\ stopCalls = 0) =>
    /\ runAtt = Len(runQ)
    /\ Len(runErrs) = Len(runQ)
    /\ queue = <<>>
    /\ ~queueLock

\* C4: when a processQueue run hands a track to the player, that track is the
\* (k+1)-th offered to the run, the k before it were each attempted and
\* reported once, in queue order, and nothing else was reported.
C4_SkipsFailures ==
  runEnd = "played" =>
    LET k == Len(runErrs) IN
      /\ k < Len(runQ)
      /\ played[Len(played)] = runQ[k + 1]
      /\ runErrs = [i \in 1..k |-> ErrNote(runQ[i])]
      /\ runAtt = k + 1

C4_Witness ==
  /\ runEnd = "played"
  /\ stopCalls = 0
  /\ Len(runErrs) = 2
  /\ playerResource = 3

\* C5: the tracks handed to the player appear in the order of their enqueue,
\* each at most once, and every one of them was enqueued.
C5_Fifo ==
  /\ Increasing(played)
  /\ \A i \in 1..Len(played) : played[i] \in 1..enqueued

C5_Witness ==
  /\ played = <<1, 3>>
  /\ ErrNote(2) \in {notes[i] : i \in 1..Len(notes)}

\* C6: a resource enters the player only in a step in which a suspended
\* processQueue execution resumes with the resource of the track it dequeued;
\* no step of enqueue() or stop() does it.
C6_OnlyProcessQueuePlays ==
  [][(playerStatus' # "Idle" /\
        (playerStatus = "Idle" \/ playerResource' # playerResource)) =>
       /\ playerResource' \in materializing
       /\ playerResource' \notin materializing'
       /\ played' = Append(played, playerResource')
       /\ enqueued' = enqueued
       /\ stopCalls' = stopCalls]_vars

C6_Witness ==
  /\ playerStatus = "Buffering"
  /\ playerResource = 2
  /\ played = <<1, 2>>

\* C7: a step of enqueue() taken while the lock is held or the player is not
\* Idle appends the track to the tail of the queue and changes nothing else.
C7_EnqueueOnlyAppends ==
  [][(enqueued' # enqueued /\ (queueLock \/ playerStatus # "Idle")) =>
       /\ queue' = Append(queue, enqueued')
       /\ UNCHANGED <<queueLock, playerStatus, playerResource, materializing,
                      played, notes>>]_vars

C7_Witness ==
  /\ ~queueLock
  /\ playerStatus = "Playing"
  /\ playerResource = 1
  /\ queue = <<2, 3>>

\* C8: a Disconnected event with reason WebSocketClose and close code 4014
\* starts a 5 second wait and destroys nothing; when the connection reaches
\* Connecting while that wait is pending the wait ends without any call on the
\* connection; when the wait times out the handler calls destroy() and the
\* connection is Destroyed.
C8_KickedOrMoved ==
  [][/\ lastEvent' = "disconnected4014" =>
          /\ waits' = Append(waits, [kind |-> "w4014", rem |-> 5000,
                                     att |-> rejoinAttempts, own |-> 1])
          /\ lastCall' = "none"
          /\ vcStatus' = "Disconnected"
     /\ (lastEvent' = "connecting" /\ "w4014" \in Kinds(waits)) =>
          /\ "w4014" \notin Kinds(waits')
          /\ lastCall' = "none"
          /\ vcStatus' = "Connecting"
     /\ lastEvent' = "timeout4014" =>
          /\ \E i \in 1..Len(waits) : waits[i].kind = "w4014" /\ waits[i].rem = 0
          /\ lastCall' \in {"destroy", "destroyThrew"}
          /\ vcStatus' = "Destroyed"]_vars

C8_Witness ==
  /\ lastEvent = "timeout4014"
  /\ lastCall = "destroy"
  /\ vcStatus = "Destroyed"
  /\ stopCalls = 1

\* C9: a Disconnected event for any other reason, with rejoinAttempts = a:
\* if a < 5 the handler starts a wait of (a + 1) x 5 seconds and calls nothing
\* on the connection, and rejoin() is called exactly when such a wait has
\* elapsed; if a >= 5 it calls destroy() and schedules no rejoin.
C9_BackoffThenRejoin ==
  [][/\ lastEvent' = "disconnectedOther" =>
          IF rejoinAttempts < 5
            THEN /\ waits' = Append(waits, [kind |-> "backoff",
                                            rem |-> (rejoinAttempts + 1) * 5000,
                                            att |-> rejoinAttempts, own |-> 1])
                 /\ lastCall' = "none"
                 /\ vcStatus' = "Disconnected"
            ELSE /\ waits' = waits
                 /\ lastCall' = "destroy"
                 /\ vcStatus' = "Destroyed"
     /\ lastEvent' = "backoffElapsed" =>
          /\ \E i \in 1..Len(waits) :
               /\ waits[i].kind = "backoff" /\ waits[i].rem = 0
               /\ waits[i].att \in 0..4
          /\ lastCall' = "rejoin"
     /\ lastCall' = "rejoin" => lastEvent' = "backoffElapsed"]_vars

C9_Witness ==
  /\ lastEvent = "disconnectedOther"
  /\ lastCall = "destroy"
  /\ rejoinAttempts = 5
  /\ \E i \in 1..Len(waits) :
       waits[i] = [kind |-> "backoff", rem |-> 25000, att |-> 4, own |-> 1]

\* C10: whenever the connection is in Signalling or Connecting it eventually
\* is Ready or Destroyed.
C10_NeverLingers ==
  (vcStatus \in {"Signalling", "Connecting"}) ~> (vcStatus \in {"Ready", "Destroyed"})

\* The ready-wait started by the constructor ran out on a connection that
\* never left Signalling, and destroyed it.
C10_Witness ==
  /\ lastEvent = "readyTimeout"
  /\ lastCall = "destroy"
  /\ vcStatus = "Destroyed"
  /\ rejoinAttempts = 0
  /\ bootResult = "pending"

\* The part of it that rests on the lock alone: a connection in Signalling or
\* Connecting whose ready-wait lock is set eventually is Ready or Destroyed.
ReadyWaitEnds ==
  (vcStatus \in {"Signalling", "Connecting"} /\ readyLock)
     ~> (vcStatus \in {"Ready", "Destroyed"})

NoteSet == {notes[i] : i \in 1..Len(notes)}

\* C13 (as claimed): after enqueue() of a single track whose resource fails
\* to materialize, once nothing is in flight, the notifications are exactly
\* the error of that track followed by "queue empty", the queue is empty and
\* nothing was played.
C13_BadOnlyTrack ==
  (enqueued = 1 /\ stopCalls = 0 /\ materializing = {} /\ played = <<>>) =>
    /\ notes = <<ErrNote(1), EmptyNote>>
    /\ queue = <<>>
    /\ playerStatus = "Idle"

\* C14: a return of the player to Idle on an empty queue sends "queue empty"
\* and does not call processQueue; on a non-empty queue it calls processQueue
\* once, which dequeues the head and starts materializing it, and sends
\* nothing.  When track 2 was queued behind track 1 and both reached Playing,
\* the notifications are: now playing 1, now playing 2, queue empty.
C14_IdleHandler ==
  /\ [][lastEvent' \in {"playerIdle", "playerError"} =>
          LET base == IF lastEvent' = "playerError"
                        THEN Append(notes, PlayerErrNote(playerResource))
                        ELSE notes
          IN IF queue = <<>>
               THEN /\ notes' = Append(base, EmptyNote)
                    /\ pqCalls' = pqCalls
                    /\ materializing' = materializing
               ELSE /\ notes' = base
                    /\ pqCalls' = pqCalls + 1
                    /\ queue' = Tail(queue)
                    /\ materializing' = {Head(queue)}]_vars
  /\ []((/\ enqueued = 2 /\ stopCalls = 0 /\ pqCalls = 3
         /\ played = <<1, 2>> /\ playerStatus = "Idle"
         /\ {NowNote(1), NowNote(2)} \subseteq NoteSet
         /\ PlayerErrNote(1) \notin NoteSet /\ PlayerErrNote(2) \notin NoteSet)
        => notes = <<NowNote(1), NowNote(2), EmptyNote>>)

C14_Witness ==
  /\ lastEvent = "playerIdle"
  /\ enqueued = 2
  /\ pqCalls = 3
  /\ notes = <<NowNote(1), NowNote(2), EmptyNote>>

\* C20 (as claimed): when stop() is never called, every enqueued track is
\* eventually handed to the player or reported by an error notification.
C20_NoTrackStranded ==
  \A t \in 1..MaxTracks :
    (enqueued >= t) ~> (t \in {played[i] : i \in 1..Len(played)}
                          \/ ErrNote(t) \in NoteSet)

\* C11 (as claimed): once the voice connection is Destroyed and the handler
\* has run, the registry no longer maps the guild to the Subscription.
C11_RegistryCleared == vcStatus = "Destroyed" => registry # 1

\* C12 (as claimed): at most one Subscription of the guild is active, and it
\* is the one the registry holds.
C12_OneActivePerSession == active \subseteq {registry}

\* C15: the bootstrap called without a Subscription by a member who is in no
\* voice channel sends the rejoin-and-retry message; it constructs no
\* Subscription, creates or touches no voice connection and leaves the
\* registry as it was, and when the message is delivered it returns nothing.
C15_NoVoiceChannel ==
  [][/\ lastEvent' = "bootNoChannel" =>
          /\ bootResult' = "noChannel"
          /\ calls' = Append(calls, Call("noChannel", Undefined))
          /\ subsCreated' = subsCreated
          /\ active' = active
          /\ listeners' = listeners
          /\ registry' = registry
          /\ vcStatus' = vcStatus
          /\ waits' = waits
     /\ (lastEvent' = "bootSaid" /\ bootResult' = "noChannel") =>
          /\ bootRet' = 0
          /\ subsCreated' = subsCreated
          /\ registry' = registry
          /\ vcStatus' = vcStatus]_vars

C15_Witness ==
  /\ lastEvent = "bootSaid"
  /\ bootResult = "noChannel"
  /\ bootRet = 0
  /\ calls = <<>>
  /\ registry = 0
  /\ vcStatus = "None"

Stages(q) == {q[k].stage : k \in 1..Len(q)}

\* C16: the bootstrap that created a Subscription reports the timeout only
\* when its 20 s wait has run out without the connection being Ready; it then
\* returns nothing and the registry keeps the entry.  It returns the
\* Subscription only after the connection became Ready while the wait was
\* pending, the voice channel was fetched and the join message delivered.
C16_JoinTimeout ==
  [][/\ lastEvent' = "bootTimeout" =>
          /\ \E i \in 1..Len(waits) :
               /\ waits[i] = Wait("boot", 0, 0, registry)
               /\ waits' = RemoveAt(waits, i)
               /\ calls' = Append(calls, Call("timeout", registry))
          /\ vcStatus # "Ready" /\ vcStatus' = vcStatus
          /\ registry' = registry /\ registry # 0
     /\ (lastEvent' = "bootSaid" /\ bootResult' = "timeout") =>
          /\ "timeout" \in Stages(calls)
          /\ bootRet' = 0
          /\ registry' = registry /\ registry # 0
     /\ ("fetching" \notin Stages(calls) /\ "fetching" \in Stages(calls')) =>
          /\ "boot" \in Kinds(waits) /\ "boot" \notin Kinds(waits')
          /\ vcStatus # "Ready" /\ vcStatus' = "Ready"
     /\ ("announcing" \notin Stages(calls) /\ "announcing" \in Stages(calls')) =>
          "fetching" \in Stages(calls)
     /\ (bootRet = 0 /\ bootRet' # 0) =>
          /\ lastEvent' = "bootAnnounced"
          /\ \E k \in 1..Len(calls) : calls[k] = Call("announcing", bootRet')
          /\ bootRet' = registry
     /\ "boot" \in Kinds(waits) => vcStatus # "Ready"]_vars

C16_Witness ==
  /\ lastEvent = "bootSaid"
  /\ bootResult = "timeout"
  /\ bootRet = 0
  /\ calls = <<>>
  /\ registry = 1

ReadyWaits(id) ==
  {i \in 1..Len(waits) : waits[i].kind = "ready" /\ waits[i].own = id}

\* C18: every Subscription has at most one ready-wait in progress, and its
\* ready-wait lock is set exactly while one is.
C18_SingleReadyWait ==
  \A id \in 1..subsCreated :
    /\ Cardinality(ReadyWaits(id)) <= 1
    /\ locks[id] <=> ReadyWaits(id) # {}

\* A Connecting event arrived while an earlier ready-wait was in progress.
C18_Witness ==
  /\ lastEvent = "connecting"
  /\ readyLock
  /\ \E i \in ReadyWaits(subsCreated) : waits[i].rem < ReadyWaitMs

\* C19 (as claimed): no step calls destroy() or rejoin() on a connection that
\* is already Destroyed.
C19_NoCallOnDestroyed ==
  /\ lastCall # "destroyThrew"
  /\ ~(lastCall = "rejoin" /\ vcStatus = "Destroyed")

\* The fields of Subscription k.
SubQ(k) == IF k = subsCreated THEN QRec(Sub) ELSE others[k]

\* C17: every step that takes the voice connection into Destroyed, whatever
\* caused it and whatever waits are suspended, runs stop() on every
\* Subscription constructed on the connection: after it the queue lock of the
\* Subscription is set, its queue is empty and its player is stopped.
C17_DestroyedRunsStop ==
  [][(vcStatus # "Destroyed" /\ vcStatus' = "Destroyed") =>
       /\ \A k \in {listeners[i] : i \in 1..Len(listeners)} :
            /\ SubQ(k)'.stopCalls = SubQ(k).stopCalls + 1
            /\ SubQ(k)'.queueLock
            /\ SubQ(k)'.queue = <<>>
            /\ SubQ(k)'.status = "Idle"
       /\ lastEvent' \in {"timeout4014", "disconnectedOther", "readyTimeout",
                          "destroyed"}]_vars

\* The ready-wait of a Subscription that was playing with a track queued timed
\* out, while another wait was still suspended and a second Subscription was
\* listening on the same connection: both ran stop(), and the player of the
\* first announced its empty queue.
C17_Witness ==
  /\ vcStatus = "Destroyed"
  /\ lastEvent = "readyTimeout"
  /\ waits # <<>>
  /\ listeners = <<1, 2>>
  /\ others[1].stopCalls = 1 /\ stopCalls = 1
  /\ others[1].queueLock /\ others[1].queue = <<>> /\ others[1].status = "Idle"
  /\ queueLock /\ queue = <<>> /\ playerStatus = "Idle"
  /\ others[1].played = <<1>> /\ others[1].enqueued = 2
  /\ notes # <<>> /\ notes[Len(notes)] = EmptyNote

====
